---- MODULE Spec2Model ----
(***************************************************************************)
(* Model of the chat agent backend: the /chat handler (server.ts), the     *)
(* one-node conversation graph with its concatenating reducer (graph.ts),  *)
(* the respond node chatAgent and the tool node toolNode (agent.ts), and   *)
(* the PostgreSQL-backed memory store (memoryStore.ts), the thread read    *)
(* handler (server.ts) and the parsing of the extraction reply (agent.ts). *)
(*                                                                         *)
(* Strings whose characters matter (fact texts, user ids, thread ids) are  *)
(* sequences of one-character strings; message contents are sequences of   *)
(* tokens.                                                                 *)
(***************************************************************************)
EXTENDS Integers, Sequences, FiniteSets, TLC

VARIABLES checkpoints, memories, nextId, turn, started, dbFailures, act,
          putBy, writers, got, parsed, probe, transports, mcp

vars == <<checkpoints, memories, nextId, turn, started, dbFailures, act,
          putBy, writers, got, parsed, probe, transports, mcp>>

(* ------------------------------ bounds -------------------------------- *)

\* Number of /chat requests issued in one behaviour.
MaxTurns == 3

\* Longest fact list one extraction reply yields.
MaxBatch == 2

\* Number of failing database queries in one behaviour.
MaxDbFailures == 1

(* ------------------------- program constants -------------------------- *)

\* fact.toLowerCase().slice(0, 20)
PrefixLen == 20

\* messages.slice(-6) of extractUserFacts
ExtractWindow == 6

\* ... ORDER BY created_at DESC LIMIT 50
SearchLimit == 50

(* ------------------------------ strings ------------------------------- *)

Min(a, b) == IF a < b THEN a ELSE b

\* One character of String.prototype.toLowerCase over the model's alphabet.
LowerChar(c) ==
    CASE c = "A" -> "a"
      [] c = "B" -> "b"
      [] c = "P" -> "p"
      [] OTHER   -> c

toLowerCase(s) == [i \in 1..Len(s) |-> LowerChar(s[i])]

\* s.slice(0, n)
slice(s, n) == SubSeq(s, 1, Min(n, Len(s)))

\* s.includes(t): t occurs in s as a contiguous substring.
includes(s, t) ==
    \E i \in 0..(Len(s) - Len(t)) : SubSeq(s, i + 1, i + Len(t)) = t

\* s.slice(-n): the last n elements, all of s when it has fewer.
sliceLast(s, n) == SubSeq(s, IF Len(s) > n THEN Len(s) - n + 1 ELSE 1, Len(s))

Last(s) == s[Len(s)]

IsPrefix(s, t) == Len(s) <= Len(t) /\ SubSeq(t, 1, Len(s)) = s

IsStrictPrefix(s, t) == Len(s) < Len(t) /\ SubSeq(t, 1, Len(s)) = s

(* ------------------------------ messages ------------------------------ *)

NoId == "none"

HumanMessage(c) ==
    [type |-> "human", content |-> c, tool_calls |-> <<>>, tool_call_id |-> NoId]

AIMessage(c, tcs) ==
    [type |-> "ai", content |-> c, tool_calls |-> tcs, tool_call_id |-> NoId]

ToolMessage(id, c) ==
    [type |-> "tool", content |-> c, tool_calls |-> <<>>, tool_call_id |-> id]

ToolCall(id, name, args) == [id |-> id, name |-> name, args |-> args]

\* tools = await client.getTools(): the one tool the weather server lists.
tools == {"get_weather"}

ToolNames == tools \cup {"get_time"}

CallIds == {"call_1", "call_2"}

Locations == {"Paris", "Rome", "Oslo"}

ToolCalls == {ToolCall(id, n, a) : id \in CallIds, n \in ToolNames, a \in Locations}

\* Lists of tool calls a model response can carry; ids are unique within one
\* assistant message.
ToolCallLists ==
    {<<>>} \cup {<<c>> : c \in ToolCalls}
           \cup {<<c, d>> : c \in {x \in ToolCalls : x.id = "call_1"},
                            d \in {x \in ToolCalls : x.id = "call_2"}}

\* What llmWithTools.invoke can return in a turn: a tool-free answer, or an
\* assistant message that asks for a tool call.
Responses ==
    { AIMessage(<<"answer">>, <<>>),
      AIMessage(<<>>, <<ToolCall("call_1", "get_weather", "Paris")>>) }

UserTexts == {<<"hello">>}

(* ----------------------------- identities ----------------------------- *)

UserIds == {<<"A">>, <<"B">>}

ThreadIds == {<<"1">>}

\* A key made of the userId alone: all threads of a user share it.
makeThreadIdOfUser(userId, threadId) == userId \o <<":">> \o <<"1">>

\* const makeThreadId = (userId, threadId) => `${userId}:${threadId}`
makeThreadId(userId, threadId) == userId \o <<":">> \o threadId

ThreadKeys == {makeThreadId(u, t) : u \in UserIds, t \in ThreadIds}

\* const [userId, ...rest] = fullThreadId.split(":");
\* return { userId, threadId: rest.join(":") }: the key is cut at its first
\* colon; a key without colon is a userId with an empty threadId.
parseThreadId(key) ==
    LET colons == {i \in 1..Len(key) : key[i] = ":"}
        first == CHOOSE i \in colons : \A j \in colons : i <= j
    IN IF colons = {} THEN [userId |-> key, threadId |-> <<>>]
       ELSE [userId |-> SubSeq(key, 1, first - 1),
             threadId |-> SubSeq(key, first + 1, Len(key))]

\* namespace = [userId, "memories"]; ns = namespace.join(":")
namespaceOf(userId) == userId \o <<":">> \o <<"memories">>

(* ---------------------------- memory store ---------------------------- *)

Row(id, ns, fact) == [id |-> id, namespace |-> ns, fact |-> fact]

Reverse(s) == [i \in 1..Len(s) |-> s[Len(s) + 1 - i]]

RECURSIVE FilterNamespace(_, _)
\* The rows of one namespace, oldest first (rows are kept in created_at order).
FilterNamespace(rows, ns) ==
    IF rows = <<>> THEN <<>>
    ELSE IF Head(rows).namespace = ns
         THEN <<Head(rows)>> \o FilterNamespace(Tail(rows), ns)
         ELSE FilterNamespace(Tail(rows), ns)

\* A search whose query orders by created_at ascending.
searchOldest(rows, ns, dbOk) ==
    IF dbOk THEN slice(FilterNamespace(rows, ns), SearchLimit) ELSE <<>>

\* A search whose query has no WHERE clause: the newest rows of all namespaces.
searchAll(rows, ns, dbOk) ==
    IF dbOk THEN slice(Reverse(rows), SearchLimit) ELSE <<>>

\* memoryStore.search: SELECT id, fact ... WHERE namespace = $1
\* ORDER BY created_at DESC LIMIT 50; a failed query yields [].
search(rows, ns, dbOk) ==
    IF dbOk THEN slice(Reverse(FilterNamespace(rows, ns)), SearchLimit) ELSE <<>>

\* A put whose INSERT never reaches the table.
putNothing(rows, ns, key, fact, dbOk) == rows

\* memoryStore.put: INSERT ... ON CONFLICT (id) DO UPDATE SET fact = $3; a
\* failed query is logged and leaves the table as it was.
put(rows, ns, key, fact, dbOk) ==
    IF ~dbOk THEN rows
    ELSE IF \E i \in 1..Len(rows) : rows[i].id = key
         THEN [i \in 1..Len(rows) |->
                  IF rows[i].id = key THEN [rows[i] EXCEPT !.fact = fact] ELSE rows[i]]
         ELSE Append(rows, Row(key, ns, fact))

\* memoryStore.delete: DELETE FROM user_memories WHERE id = $1; the
\* namespace is no part of the query, and a failed query is logged.
delete(rows, ns, key, dbOk) ==
    IF ~dbOk THEN rows ELSE SelectSeq(rows, LAMBDA r : r.id # key)

RECURSIVE FilterTruthy(_)
\* .filter(Boolean) over fact strings: the empty string is falsy.
FilterTruthy(facts) ==
    IF facts = <<>> THEN <<>>
    ELSE IF Head(facts) # <<>>
         THEN <<Head(facts)>> \o FilterTruthy(Tail(facts))
         ELSE FilterTruthy(Tail(facts))

\* userMemories = items.map((item) => item.value?.fact).filter(Boolean)
loadMemories(items) == FilterTruthy([i \in 1..Len(items) |-> items[i].fact])

\* A fact is a duplicate only of a known fact with the very same text.
isDuplicateExact(userMemories, fact) ==
    \E i \in 1..Len(userMemories) : userMemories[i] = fact

\* userMemories.some((m) => m.toLowerCase().includes(fact.toLowerCase().slice(0, 20))
\*                       || fact.toLowerCase().includes(m.toLowerCase().slice(0, 20)))
isDuplicate(userMemories, fact) ==
    \E i \in 1..Len(userMemories) :
        \/ includes(toLowerCase(userMemories[i]), slice(toLowerCase(fact), PrefixLen))
        \/ includes(toLowerCase(fact), slice(toLowerCase(userMemories[i]), PrefixLen))

(* ----------------------------- fact texts ----------------------------- *)

LongPrefix == [i \in 1..PrefixLen |-> "p"]

\* Candidate fact texts: the empty text, a one-character text, and a text
\* longer than the compared prefix.
FactTexts == { <<>>, <<"A">>, LongPrefix \o <<"x">> }

\* What extractUserFacts can return: any list of at most MaxBatch strings
\* (a reply without facts or without a parsable array yields the empty list).
ExtractionResults == UNION {[1..n -> FactTexts] : n \in 0..MaxBatch}

(* -------------------------------- graph ------------------------------- *)

\* A reducer that replaces the channel by the update.
reducerReplace(current, update) == update

\* reducer: (current, update) => current.concat(update)
reducer(current, update) == current \o update

\* A checkpoint write that adds the last message of the written values to
\* what the thread holds at the time of the write.
putCheckpointAppended(persisted, values) == persisted \o <<Last(values)>>

\* checkpointer.put: the channel values of the writing run become the
\* thread's latest checkpoint, whatever the thread held before.
putCheckpoint(persisted, values) == values

\* .addEdge(START, "agent").addEdge("agent", END)
edge(from) == IF from = "START" THEN "agent" ELSE "END"

\* Picks the first message of the result instead of the last.
firstMessage(messages) == messages[1]

\* const lastMessage = result.messages[result.messages.length - 1]
lastMessage(messages) == messages[Len(messages)]

(* ------------------------------- prompt ------------------------------- *)

SystemMessage(c) ==
    [type |-> "system", content |-> c, tool_calls |-> <<>>, tool_call_id |-> NoId]

MemoryPrompt == "You are a helpful AI assistant with memory."

RememberHeader == "IMPORTANT - Things you remember about this user from previous conversations:"

RememberFooter == "Use this information naturally in your responses."

DefaultPrompt == "You are a helpful assistant. If you receive tool results, you MUST use them to answer the user."

RECURSIVE bullets(_)
\* userMemories.map((m) => `- ${m}`).join("\n")
bullets(userMemories) ==
    IF userMemories = <<>> THEN <<>>
    ELSE <<"- ">> \o Head(userMemories)
           \o (IF Tail(userMemories) = <<>> THEN <<>>
               ELSE <<"\n">> \o bullets(Tail(userMemories)))

\* let systemContent = "..."; if (userMemories.length > 0) systemContent += ...
systemContent(userMemories) ==
    IF Len(userMemories) > 0
    THEN <<MemoryPrompt, "\n\n", RememberHeader, "\n">> \o bullets(userMemories)
           \o <<"\n\n", RememberFooter>>
    ELSE <<MemoryPrompt>>

\* state.messages.some((m) => m._getType?.() === "system")
hasSystem(messages) == \E i \in 1..Len(messages) : messages[i].type = "system"

\* A prompt built from systemContent: the memory-dependent text in front of
\* the state's messages.
messagesWithSystem(messages, userMemories) ==
    <<SystemMessage(systemContent(userMemories))>> \o messages

\* What chatAgent hands to llmWithTools.invoke: the state's messages, behind
\* the fixed SystemMessage when they hold no system message. systemContent
\* is computed by chatAgent but is no part of it.
baseMessages(messages, userMemories) ==
    IF hasSystem(messages) THEN messages
    ELSE <<SystemMessage(<<DefaultPrompt>>)>> \o messages

(* -------------------------------- state ------------------------------- *)

Slots == {"s1", "s2"}

NoResponse == AIMessage(<<>>, <<>>)

NoRes == [status |-> 0, reply |-> <<>>]

\* The state of one turn. Beside the node's own data it records what the
\* turn did: the sequence handed to the answering model (prompt), the ids
\* the known-facts search returned (items), the ids it stored (saved), the
\* numbers of store searches, store puts, extractions and failed model
\* invocations, the messages the extraction was run on (window), the memory
\* failures it logged (log), and whether the request carried a userId
\* (carried).
IdleTurn ==
    [pc |-> "idle", userId |-> <<>>, threadKey |-> <<>>, loaded |-> <<>>,
     messages |-> <<>>, userMemories |-> <<>>, response |-> NoResponse,
     newFacts |-> <<>>, extracted |-> <<>>, invocations |-> 0, res |-> NoRes,
     prev |-> [userId |-> <<>>, extracted |-> <<>>],
     prompt |-> <<>>, items |-> <<>>, saved |-> <<>>, reads |-> 0, puts |-> 0,
     extractions |-> 0, window |-> <<>>, modelErrors |-> 0, log |-> <<>>, carried |-> TRUE]

ActIdle == [pc |-> "none", messages |-> <<>>, update |-> <<>>, error |-> "none", toolRaised |-> FALSE]

GotIdle == [status |-> 0, userId |-> <<>>, threadId |-> <<>>, messages |-> <<>>]

\* No store or key operation has been issued.
ProbeIdle == [pc |-> "none"]

\* An mcp-session-id header: absent, or present with a value.
NoHeader == [present |-> FALSE, value |-> <<>>]

\* No request has been made to the tool server.
McpIdle ==
    [method |-> "none", header |-> NoHeader, status |-> 0, before |-> <<>>,
     made |-> 0, constructed |-> FALSE, closed |-> FALSE]

ParsedIdle == [pc |-> "none", threw |-> FALSE, content |-> <<>>, facts |-> <<>>]

\* The state after start-up on the thread keys a specification uses: no
\* checkpoint, no stored fact, no request yet.
InitOn(keys) ==
    /\ checkpoints = [k \in keys |-> <<>>]
    /\ memories = <<>>
    /\ nextId = 1
    /\ turn = [s \in Slots |-> IdleTurn]
    /\ started = 0
    /\ dbFailures = 0
    /\ act = ActIdle
    /\ putBy = <<>>
    /\ writers = [k \in keys |-> {}]
    /\ transports = <<>>
    /\ mcp = McpIdle
    /\ got = GotIdle
    /\ probe = ProbeIdle
    /\ parsed = ParsedIdle

Init == InitOn(ThreadKeys)

\* A database query either succeeds or is one of the behaviour's failures.
Db(dbOk) ==
    /\ dbOk \/ dbFailures < MaxDbFailures
    /\ dbFailures' = IF dbOk THEN dbFailures ELSE dbFailures + 1

InFlight(s) == turn[s].pc \notin {"idle", "done", "failed"}

(* ------------------------------- /chat -------------------------------- *)

\* chatGraph.invoke({ messages: [new HumanMessage(message)] }, { configurable:
\* { thread_id, user_id } }): the checkpointer loads the thread's sequence,
\* the reducer appends the input and the input checkpoint is written.
Invoke(s, key, userId, message, carried) ==
    /\ edge("START") = "agent"
    /\ LET msgs == reducer(checkpoints[key], <<HumanMessage(message)>>)
       IN /\ checkpoints' = [checkpoints EXCEPT ![key] = putCheckpoint(@, msgs)]
          /\ turn' = [turn EXCEPT ![s] =
                [IdleTurn EXCEPT !.pc = "search",
                                 !.userId = userId,
                                 !.threadKey = key,
                                 !.loaded = checkpoints[key],
                                 !.messages = msgs,
                                 !.carried = carried,
                                 !.prev = [userId |-> turn[s].userId,
                                           extracted |-> turn[s].extracted]]]
    /\ writers' = [writers EXCEPT ![key] = @ \cup {userId}]

\* Every request gets the same generated id.
uuidv4First(n) == <<"u", "1">>

\* uuidv4(): the n-th generated id differs from every other generated id.
uuidv4(n) == <<"u", ToString(n)>>

\* POST /chat with a message: a missing userId or threadId is replaced by a
\* generated id, and the graph is invoked on the composite thread key.
Chat(s, userId, threadId, message) ==
    /\ ~InFlight(s)
    /\ started < MaxTurns
    /\ message # <<>>
    /\ LET actualUserId == IF userId # <<>> THEN userId ELSE uuidv4(2 * started + 1)
           actualThreadId == IF threadId # <<>> THEN threadId ELSE uuidv4(2 * started + 2)
       IN Invoke(s, makeThreadId(actualUserId, actualThreadId), actualUserId, message,
                 userId # <<>>)
    /\ started' = started + 1
    /\ UNCHANGED <<memories, nextId, dbFailures, act, putBy, got, parsed, probe, transports, mcp>>

\* POST /chat without a message: 400, nothing else happens.
ChatNoMessage(s) ==
    /\ ~InFlight(s)
    /\ started < MaxTurns
    /\ turn' = [turn EXCEPT ![s] =
          [IdleTurn EXCEPT !.pc = "failed", !.res = [status |-> 400, reply |-> <<>>]]]
    /\ started' = started + 1
    /\ UNCHANGED <<checkpoints, memories, nextId, dbFailures, act, putBy, writers, got, parsed, probe, transports, mcp>>

(* ------------------------------ chatAgent ----------------------------- *)

\* items.map((item) => item.key)
keysOf(items) == [i \in 1..Len(items) |-> items[i].id]

\* A known-facts read whose failure is not caught: the node throws and the
\* handler answers 500.
AgentSearchThrows(s, dbOk) ==
    /\ turn[s].pc = "search"
    /\ turn[s].userId # <<>>
    /\ Db(dbOk)
    /\ LET items == search(memories, namespaceOf(turn[s].userId), dbOk)
       IN turn' = [turn EXCEPT ![s].pc = IF dbOk THEN "invoke" ELSE "failed",
                               ![s].userMemories = loadMemories(items),
                               ![s].items = keysOf(items),
                               ![s].reads = @ + 1,
                               ![s].log = IF dbOk THEN @ ELSE Append(@, "search"),
                               ![s].res = IF dbOk THEN @ ELSE [status |-> 500, reply |-> <<>>]]
    /\ UNCHANGED <<checkpoints, memories, nextId, started, act, putBy, writers, got, parsed, probe, transports, mcp>>

\* chatAgent, up to the model call: with a userId, read the user's known
\* facts; a failed read is logged and leaves userMemories empty.
AgentSearch(s, dbOk) ==
    /\ turn[s].pc = "search"
    /\ IF turn[s].userId # <<>>
       THEN /\ Db(dbOk)
            /\ LET items == search(memories, namespaceOf(turn[s].userId), dbOk)
               IN turn' = [turn EXCEPT ![s].pc = "invoke",
                                       ![s].userMemories = loadMemories(items),
                                       ![s].items = keysOf(items),
                                       ![s].reads = @ + 1,
                                       ![s].log = IF dbOk THEN @ ELSE Append(@, "search")]
       ELSE /\ dbOk
            /\ turn' = [turn EXCEPT ![s].pc = "invoke"]
            /\ UNCHANGED dbFailures
    /\ UNCHANGED <<checkpoints, memories, nextId, started, act, putBy, writers, got, parsed, probe, transports, mcp>>

\* Where chatAgent goes after llmWithTools.invoke returned: straight to its
\* return when the state ends in a ToolMessage, when there is no userId, or
\* when the state's last message carries tool calls; else to extraction.
afterInvoke(messages, userId) ==
    IF Last(messages).type = "tool" THEN "return"
    ELSE IF userId = <<>> THEN "return"
    ELSE IF Last(messages).tool_calls # <<>> THEN "return"
    ELSE "extract"

\* llmWithTools.invoke(baseMessages) returns a response.
AgentInvoke(s, response) ==
    /\ turn[s].pc = "invoke"
    /\ turn' = [turn EXCEPT ![s].pc = afterInvoke(turn[s].messages, turn[s].userId),
                            ![s].prompt = baseMessages(turn[s].messages, turn[s].userMemories),
                            ![s].response = response,
                            ![s].invocations = @ + 1]
    /\ UNCHANGED <<checkpoints, memories, nextId, started, dbFailures, act, putBy, writers, got, parsed, probe, transports, mcp>>

\* The failed invocation is answered with an assistant message that the
\* node returns like a response.
AgentInvokeFailsAnswered(s) ==
    /\ turn[s].pc = "invoke"
    /\ turn' = [turn EXCEPT ![s].pc = "return",
                            ![s].prompt = baseMessages(turn[s].messages, turn[s].userMemories),
                            ![s].response = AIMessage(<<"error">>, <<>>),
                            ![s].invocations = @ + 1,
                            ![s].modelErrors = @ + 1]
    /\ UNCHANGED <<checkpoints, memories, nextId, started, dbFailures, act, putBy, writers, got, parsed, probe, transports, mcp>>

\* llmWithTools.invoke(baseMessages) throws: the graph run rejects and the
\* handler answers 500; the thread keeps its input checkpoint.
AgentInvokeFails(s) ==
    /\ turn[s].pc = "invoke"
    /\ turn' = [turn EXCEPT ![s].pc = "failed",
                            ![s].prompt = baseMessages(turn[s].messages, turn[s].userMemories),
                            ![s].invocations = @ + 1,
                            ![s].modelErrors = @ + 1,
                            ![s].res = [status |-> 500, reply |-> <<>>]]
    /\ UNCHANGED <<checkpoints, memories, nextId, started, dbFailures, act, putBy, writers, got, parsed, probe, transports, mcp>>

\* newFacts = await extractUserFacts(state.messages)
AgentExtract(s, facts) ==
    /\ turn[s].pc = "extract"
    /\ turn' = [turn EXCEPT ![s].pc = IF facts = <<>> THEN "return" ELSE "save",
                            ![s].newFacts = facts,
                            ![s].extracted = facts,
                            ![s].extractions = @ + 1,
                            ![s].window = sliceLast(turn[s].messages, ExtractWindow)]
    /\ UNCHANGED <<checkpoints, memories, nextId, started, dbFailures, act, putBy, writers, got, parsed, probe, transports, mcp>>

\* extractUserFacts catches an error of its model call or of JSON.parse,
\* logs it and returns [].
AgentExtractFails(s) ==
    /\ turn[s].pc = "extract"
    /\ turn' = [turn EXCEPT ![s].pc = "return",
                            ![s].extractions = @ + 1,
                            ![s].window = sliceLast(turn[s].messages, ExtractWindow),
                            ![s].log = Append(@, "extract")]
    /\ UNCHANGED <<checkpoints, memories, nextId, started, dbFailures, act, putBy, writers, got, parsed, probe, transports, mcp>>

\* Every save uses the id of the first save.
memoryIdFirst(n) == 1

\* `memory_${Date.now()}_${Math.random()...}`: the id minted for the n-th
\* save differs from the ids of all other saves.
memoryId(n) == n

\* One iteration of `for (const fact of newFacts)`: a fact that is no
\* duplicate of the facts read at the start of the node is put under a
\* freshly minted id; a failed put is logged and the loop goes on.
AgentSaveFact(s, dbOk) ==
    /\ turn[s].pc = "save"
    /\ LET fact == Head(turn[s].newFacts)
           rest == Tail(turn[s].newFacts)
           next == IF rest = <<>> THEN "return" ELSE "save"
       IN IF ~isDuplicate(turn[s].userMemories, fact)
          THEN /\ Db(dbOk)
               /\ memories' = put(memories, namespaceOf(turn[s].userId), memoryId(nextId), fact, dbOk)
               /\ nextId' = IF dbOk THEN nextId + 1 ELSE nextId
               /\ putBy' = IF dbOk
                           THEN Append(putBy, [userId |-> turn[s].userId,
                                               threadKey |-> turn[s].threadKey])
                           ELSE putBy
               /\ turn' = [turn EXCEPT ![s].pc = next,
                                       ![s].newFacts = rest,
                                       ![s].puts = @ + 1,
                                       ![s].saved = IF dbOk THEN Append(@, memoryId(nextId)) ELSE @,
                                       ![s].log = IF dbOk THEN @ ELSE Append(@, "put")]
          ELSE /\ dbOk
               /\ turn' = [turn EXCEPT ![s].pc = next, ![s].newFacts = rest]
               /\ UNCHANGED <<memories, nextId, dbFailures, putBy>>
    /\ UNCHANGED <<checkpoints, started, act, writers, got, parsed, probe, transports, mcp>>

\* chatAgent returns { messages: [response] }: the reducer appends it, the
\* graph follows the edge out of "agent", the checkpoint is written and the
\* handler answers with the content of the last message.
AgentReturn(s) ==
    /\ turn[s].pc = "return"
    /\ edge("agent") = "END"
    /\ LET msgs == reducer(turn[s].messages, <<turn[s].response>>)
       IN /\ checkpoints' = [checkpoints EXCEPT ![turn[s].threadKey] = putCheckpoint(@, msgs)]
          /\ turn' = [turn EXCEPT ![s].pc = "done",
                                  ![s].messages = msgs,
                                  ![s].res = [status |-> 200,
                                              reply |-> lastMessage(msgs).content]]
    /\ UNCHANGED <<memories, nextId, started, dbFailures, act, putBy, writers, got, parsed, probe, transports, mcp>>

(* ---------------------------- specification --------------------------- *)

\* Turns are issued one after another: the one handler slot "s1" serves
\* them all, and it accepts a request only when its turn is not in flight.
Next ==
    \/ \E u \in UserIds, t \in ThreadIds, m \in UserTexts : Chat("s1", u, t, m)
    \/ ChatNoMessage("s1")
    \/ \E dbOk \in BOOLEAN : AgentSearch("s1", dbOk)
    \/ \E r \in Responses : AgentInvoke("s1", r)
    \/ AgentInvokeFails("s1")
    \/ \E facts \in ExtractionResults : AgentExtract("s1", facts)
    \/ AgentExtractFails("s1")
    \/ \E dbOk \in BOOLEAN : AgentSaveFact("s1", dbOk)
    \/ AgentReturn("s1")

Spec == Init /\ [][Next]_vars

(* ------------------------------ toolNode ------------------------------ *)

\* The weather server's get_weather handler.
toolResult(args) == <<"It's always sunny in ", args>>

\* JSON.stringify of a string: the text between double quotes.
JSONstringify(text) == <<"\"">> \o text \o <<"\"">>

\* toolNode(state): nothing to do without tool calls; else the first tool
\* call is looked up by name, a missing tool throws, the tool is invoked
\* (and may throw) and one ToolMessage answering that call is returned.
toolNode(messages, toolRaises) ==
    LET last == messages[Len(messages)]
    IN IF last.tool_calls = <<>>
       THEN [pc |-> "returned", update |-> <<>>, error |-> "none"]
       ELSE LET toolCall == last.tool_calls[1]
            IN IF toolCall.name \notin tools
               THEN [pc |-> "threw", update |-> <<>>, error |-> "Tool not found"]
               ELSE IF toolRaises
                    THEN [pc |-> "threw", update |-> <<>>, error |-> "tool error"]
                    ELSE [pc |-> "returned",
                          update |-> <<ToolMessage(toolCall.id,
                                          JSONstringify(toolResult(toolCall.args)))>>,
                          error |-> "none"]

\* States handed to toolNode: a user message alone, or followed by an
\* assistant message with zero, one or two tool calls.
ActInputs ==
    {<<HumanMessage(m)>> : m \in UserTexts}
      \cup {<<HumanMessage(m), AIMessage(<<>>, tcs)>> : m \in UserTexts, tcs \in ToolCallLists}

InitAct ==
    /\ checkpoints = [k \in ThreadKeys |-> <<>>]
    /\ memories = <<>>
    /\ nextId = 1
    /\ turn = [s \in Slots |-> IdleTurn]
    /\ started = 0
    /\ dbFailures = 0
    /\ putBy = <<>>
    /\ writers = [k \in ThreadKeys |-> {}]
    /\ transports = <<>>
    /\ mcp = McpIdle
    /\ got = GotIdle
    /\ probe = ProbeIdle
    /\ parsed = ParsedIdle
    /\ \E msgs \in ActInputs : act = [ActIdle EXCEPT !.pc = "ready", !.messages = msgs]

\* One run of toolNode on the state; the tool itself either answers or raises.
ToolNode(toolRaises) ==
    /\ act.pc = "ready"
    /\ LET out == toolNode(act.messages, toolRaises)
       IN act' = [act EXCEPT !.pc = out.pc, !.update = out.update, !.error = out.error,
                             !.toolRaised = toolRaises]
    /\ UNCHANGED <<checkpoints, memories, nextId, turn, started, dbFailures,
                   putBy, writers, got, parsed, probe, transports, mcp>>

NextAct == \E toolRaises \in BOOLEAN : ToolNode(toolRaises)

SpecAct == InitAct /\ [][NextAct]_vars

(* ---------------------------- thread reads ---------------------------- *)

\* User and thread ids with and without a colon.
WideUserIds == {<<"A">>, <<"A", ":", "B">>}

WideThreadIds == {<<"1">>, <<"B", ":", "1">>}

WideKeys == {makeThreadId(u, t) : u \in WideUserIds, t \in WideThreadIds}

\* const fullThreadId = userId ? makeThreadId(userId, threadId) : threadId
fullThreadId(userId, threadId) ==
    IF userId # <<>> THEN makeThreadId(userId, threadId) ELSE threadId

\* (state.values?.messages || []).map((m) => ({ role: ..., content: m.content }))
threadView(messages) ==
    [i \in 1..Len(messages) |->
        [role |-> IF messages[i].type = "human" THEN "user" ELSE "assistant",
         content |-> messages[i].content]]

\* GET /threads/:threadId?userId=...: the state persisted under the full
\* thread id is answered; a thread without checkpoint has no messages.
GetThread(userId, threadId) ==
    /\ LET key == fullThreadId(userId, threadId)
       IN got' = [status |-> 200, userId |-> userId, threadId |-> threadId,
                  messages |-> IF key \in DOMAIN checkpoints
                               THEN threadView(checkpoints[key]) ELSE <<>>]
    /\ UNCHANGED <<checkpoints, memories, nextId, turn, started, dbFailures, act,
                   putBy, writers, parsed, probe, transports, mcp>>

InitIds == InitOn(WideKeys)

\* Turns and thread reads of users whose ids may hold a colon; the extraction
\* finds no fact in these conversations.
NextIds ==
    \/ \E u \in WideUserIds, t \in WideThreadIds, m \in UserTexts : Chat("s1", u, t, m)
    \/ \E dbOk \in BOOLEAN : AgentSearch("s1", dbOk)
    \/ \E r \in Responses : AgentInvoke("s1", r)
    \/ AgentInvokeFails("s1")
    \/ AgentExtract("s1", <<>>)
    \/ AgentReturn("s1")
    \/ \E u \in WideUserIds, t \in WideThreadIds : GetThread(u, t)

SpecIds == InitIds /\ [][NextIds]_vars

(* ---------------------------- thread listing ------------------------- *)

RECURSIVE checkpointList(_)
\* checkpointer.list({}): the thread id of every checkpoint of every thread;
\* a thread has a checkpoint for each message it holds.
checkpointList(keys) ==
    IF keys = {} THEN <<>>
    ELSE LET k == CHOOSE x \in keys : TRUE
         IN [i \in 1..Len(checkpoints[k]) |-> k] \o checkpointList(keys \ {k})

\* threadId.startsWith(prefix)
startsWith(threadId, prefix) == IsPrefix(prefix, threadId)

\* messages.find((m) => m.type === "human")?.content, "New Chat" without one;
\* the texts here are shorter than the 50 characters the title is cut to.
titleOf(messages) ==
    LET humans == {i \in 1..Len(messages) : messages[i].type = "human"}
    IN IF humans = {} THEN <<"New Chat">>
       ELSE messages[CHOOSE i \in humans : \A j \in humans : i <= j].content

RECURSIVE threadsOf(_, _, _)
\* The loop over the checkpoints: a thread id that starts with userId + ":"
\* and was not seen before adds one entry.
threadsOf(list, userId, seenThreads) ==
    IF list = <<>> THEN <<>>
    ELSE LET threadId == Head(list) IN
         IF startsWith(threadId, userId \o <<":">>) /\ threadId \notin seenThreads
         THEN <<[id |-> parseThreadId(threadId).threadId,
                 fullThreadId |-> threadId,
                 title |-> titleOf(checkpoints[threadId]),
                 messageCount |-> Len(checkpoints[threadId])]>>
              \o threadsOf(Tail(list), userId, seenThreads \cup {threadId})
         ELSE threadsOf(Tail(list), userId, seenThreads)

\* GET /users/:userId/threads
ListThreads(userId) ==
    /\ probe' = [pc |-> "listed", userId |-> userId,
                 threads |-> threadsOf(checkpointList(DOMAIN checkpoints), userId, {})]
    /\ UNCHANGED <<checkpoints, memories, nextId, turn, started, dbFailures, act,
                   putBy, writers, got, parsed, transports, mcp>>

\* Turns and thread listings of users whose ids may hold a colon; the
\* extraction finds no fact in these conversations.
NextList ==
    \/ \E u \in WideUserIds, t \in WideThreadIds, m \in UserTexts : Chat("s1", u, t, m)
    \/ \E dbOk \in BOOLEAN : AgentSearch("s1", dbOk)
    \/ \E r \in Responses : AgentInvoke("s1", r)
    \/ AgentInvokeFails("s1")
    \/ AgentExtract("s1", <<>>)
    \/ AgentReturn("s1")
    \/ \E u \in WideUserIds : ListThreads(u)

SpecList == InitIds /\ [][NextList]_vars

(* ------------------------- one user, two threads ---------------------- *)

TwoThreadIds == {<<"1">>, <<"2">>}

InitThreads == InitOn({makeThreadId(<<"A">>, t) : t \in TwoThreadIds})

\* Turns of user A on two threads.
NextThreads ==
    \/ \E t \in TwoThreadIds, m \in UserTexts : Chat("s1", <<"A">>, t, m)
    \/ \E dbOk \in BOOLEAN : AgentSearch("s1", dbOk)
    \/ \E r \in Responses : AgentInvoke("s1", r)
    \/ AgentInvokeFails("s1")
    \/ \E facts \in ExtractionResults : AgentExtract("s1", facts)
    \/ AgentExtractFails("s1")
    \/ \E dbOk \in BOOLEAN : AgentSaveFact("s1", dbOk)
    \/ AgentReturn("s1")

SpecThreads == InitThreads /\ [][NextThreads]_vars

(* ------------------------ requests without userId --------------------- *)

GeneratedUserIds == {uuidv4(2 * n + 1) : n \in 0..(MaxTurns - 1)}

InitAnon == InitOn({makeThreadId(u, t) : u \in GeneratedUserIds, t \in ThreadIds})

\* Turns whose request carries a threadId and no userId.
NextAnon ==
    \/ \E t \in ThreadIds, m \in UserTexts : Chat("s1", <<>>, t, m)
    \/ \E dbOk \in BOOLEAN : AgentSearch("s1", dbOk)
    \/ \E r \in Responses : AgentInvoke("s1", r)
    \/ AgentInvokeFails("s1")
    \/ \E facts \in ExtractionResults : AgentExtract("s1", facts)
    \/ AgentExtractFails("s1")
    \/ \E dbOk \in BOOLEAN : AgentSaveFact("s1", dbOk)
    \/ AgentReturn("s1")

SpecAnon == InitAnon /\ [][NextAnon]_vars

(* -------------------------- extraction reply -------------------------- *)

\* Longest extraction reply, in tokens.
MaxReplyLen == 5

\* One token of a reply: a bracket, a comma, a string literal with its text,
\* a number literal, or other text.
Tok(k, v) == [k |-> k, v |-> v]

ReplyTokens ==
    { Tok("[", <<>>), Tok("]", <<>>), Tok(",", <<>>),
      Tok("str", <<"A">>), Tok("str", <<"B">>), Tok("num", <<"7">>), Tok("text", <<>>) }

Replies == UNION {[1..n -> ReplyTokens] : n \in 0..MaxReplyLen}

\* content.match(/\[[\s\S]*\]/): from the first "[" that has a "]" after it
\* to the last "]"; <<>> when there is none.
match(content) ==
    LET opens == {i \in 1..Len(content) : content[i].k = "["}
        closes == {i \in 1..Len(content) : content[i].k = "]"}
    IN IF opens = {} \/ closes = {} THEN <<>>
       ELSE LET first == CHOOSE i \in opens : \A j \in opens : i <= j
                last == CHOOSE i \in closes : \A j \in closes : j <= i
            IN IF first < last THEN SubSeq(content, first, last) ELSE <<>>

ParseFail == [ok |-> FALSE, next |-> 0, el |-> Tok("text", <<>>), elems |-> <<>>]

RECURSIVE parseValue(_, _), parseItems(_, _, _)
\* JSON.parse of the value that starts at token i: a string, a number or an
\* array; `elems` holds the elements when the value is an array.
parseValue(t, i) ==
    IF i > Len(t) THEN ParseFail
    ELSE IF t[i].k \in {"str", "num"}
         THEN [ok |-> TRUE, next |-> i + 1, el |-> t[i], elems |-> <<>>]
    ELSE IF t[i].k = "["
         THEN IF i + 1 <= Len(t) /\ t[i + 1].k = "]"
              THEN [ok |-> TRUE, next |-> i + 2, el |-> Tok("arr", <<>>), elems |-> <<>>]
              ELSE LET r == parseItems(t, i + 1, <<>>)
                   IN IF r.ok THEN [r EXCEPT !.el = Tok("arr", <<>>)] ELSE ParseFail
    ELSE ParseFail

\* The elements of an array from token i on, up to its closing bracket.
parseItems(t, i, acc) ==
    LET v == parseValue(t, i)
    IN IF ~v.ok \/ v.next > Len(t) THEN ParseFail
       ELSE IF t[v.next].k = ","
            THEN parseItems(t, v.next + 1, Append(acc, v.el))
       ELSE IF t[v.next].k = "]"
            THEN [ok |-> TRUE, next |-> v.next + 1, el |-> v.el, elems |-> Append(acc, v.el)]
       ELSE ParseFail

\* JSON.parse(match[0]): the elements of the array, or a SyntaxError.
JSONparse(t) ==
    LET r == parseValue(t, 1)
    IN IF r.ok /\ r.next = Len(t) + 1
       THEN [ok |-> TRUE, value |-> r.elems]
       ELSE [ok |-> FALSE, value |-> <<>>]

IsString(e) == e.k = "str"

\* The texts of an array, or nothing when an element is not a string.
stringsOrNone(elems) ==
    IF \A i \in 1..Len(elems) : IsString(elems[i])
    THEN [i \in 1..Len(elems) |-> elems[i].v]
    ELSE <<>>

\* facts.filter((f) => typeof f === "string")
stringsOf(elems) ==
    LET kept == SelectSeq(elems, IsString)
    IN [i \in 1..Len(kept) |-> kept[i].v]

\* extractUserFacts from the reply of its model call on: an error of the
\* call or of JSON.parse is caught and gives [], no match gives [].
extractUserFacts(threw, content) ==
    IF threw \/ match(content) = <<>> THEN <<>>
    ELSE LET facts == JSONparse(match(content))
         IN IF facts.ok THEN stringsOf(facts.value) ELSE <<>>

InitParse ==
    /\ checkpoints = [k \in ThreadKeys |-> <<>>]
    /\ memories = <<>>
    /\ nextId = 1
    /\ turn = [s \in Slots |-> IdleTurn]
    /\ started = 0
    /\ dbFailures = 0
    /\ act = ActIdle
    /\ putBy = <<>>
    /\ writers = [k \in ThreadKeys |-> {}]
    /\ transports = <<>>
    /\ mcp = McpIdle
    /\ got = GotIdle
    /\ probe = ProbeIdle
    /\ \E threw \in BOOLEAN, content \in Replies :
          /\ threw => content = <<>>
          /\ parsed = [ParsedIdle EXCEPT !.pc = "ready", !.threw = threw, !.content = content]

\* extractUserFacts turns the reply into its list of facts.
ExtractUserFacts ==
    /\ parsed.pc = "ready"
    /\ parsed' = [parsed EXCEPT !.pc = "done",
                                !.facts = extractUserFacts(parsed.threw, parsed.content)]
    /\ UNCHANGED <<checkpoints, memories, nextId, turn, started, dbFailures, act,
                   putBy, writers, got, probe, transports, mcp>>

NextParse == ExtractUserFacts

SpecParse == InitParse /\ [][NextParse]_vars

(* --------------------------- store operations ------------------------ *)

\* Largest number of rows in a table the store operations are applied to.
MaxRows == 52

\* The state when only the memory table holds rows and one operation,
\* described by pr, is about to be applied.
InitWith(rows, pr) ==
    /\ checkpoints = [k \in ThreadKeys |-> <<>>]
    /\ memories = rows
    /\ nextId = Len(rows) + 1
    /\ turn = [s \in Slots |-> IdleTurn]
    /\ started = 0
    /\ dbFailures = 0
    /\ act = ActIdle
    /\ putBy = <<>>
    /\ writers = [k \in ThreadKeys |-> {}]
    /\ transports = <<>>
    /\ mcp = McpIdle
    /\ got = GotIdle
    /\ parsed = ParsedIdle
    /\ probe = pr

\* The text of the i-th fact: "f" and two digits.
FactNo(i) == <<"f", ToString(i \div 10), ToString(i % 10)>>

\* A table of n rows in creation order whose every m-th row belongs to user
\* B and the others to user A.
TableOf(n, m) ==
    [i \in 1..n |-> Row(i, namespaceOf(IF i % m = 0 THEN <<"B">> ELSE <<"A">>), FactNo(i))]

InitSearch ==
    \E n \in 0..MaxRows, m \in {1, 2, MaxRows} : InitWith(TableOf(n, m), [pc |-> "ready"])

\* memoryStore.search(namespace) on the table.
SearchStore(userId, dbOk) ==
    /\ probe.pc = "ready"
    /\ probe' = [pc |-> "searched", ns |-> namespaceOf(userId), dbOk |-> dbOk,
                 result |-> search(memories, namespaceOf(userId), dbOk)]
    /\ UNCHANGED <<checkpoints, memories, nextId, turn, started, dbFailures, act,
                   putBy, writers, got, parsed, transports, mcp>>

NextSearch == \E u \in UserIds, dbOk \in BOOLEAN : SearchStore(u, dbOk)

SpecSearch == InitSearch /\ [][NextSearch]_vars

(* --------------------------- concurrent turns ------------------------ *)

\* POST /chat up to the checkpointer's read inside chatGraph.invoke: the
\* thread's latest checkpoint is loaded and the reducer appends the input
\* to the loaded sequence.
ChatLoad(s, userId, threadId, message) ==
    /\ ~InFlight(s)
    /\ started < MaxTurns
    /\ message # <<>>
    /\ edge("START") = "agent"
    /\ LET key == makeThreadId(userId, threadId) IN
       turn' = [turn EXCEPT ![s] =
                [IdleTurn EXCEPT !.pc = "input",
                                 !.userId = userId,
                                 !.threadKey = key,
                                 !.loaded = checkpoints[key],
                                 !.messages = reducer(checkpoints[key], <<HumanMessage(message)>>),
                                 !.carried = TRUE,
                                 !.prev = [userId |-> turn[s].userId,
                                           extracted |-> turn[s].extracted]]]
    /\ started' = started + 1
    /\ UNCHANGED <<checkpoints, memories, nextId, dbFailures, act, putBy, writers,
                   got, parsed, probe, transports, mcp>>

\* The input checkpoint of the run is written, then the agent node starts.
ChatInput(s) ==
    /\ turn[s].pc = "input"
    /\ checkpoints' = [checkpoints EXCEPT ![turn[s].threadKey] =
                          putCheckpoint(@, turn[s].messages)]
    /\ writers' = [writers EXCEPT ![turn[s].threadKey] = @ \cup {turn[s].userId}]
    /\ turn' = [turn EXCEPT ![s].pc = "search"]
    /\ UNCHANGED <<memories, nextId, started, dbFailures, act, putBy, got, parsed, probe, transports, mcp>>

\* What the extraction finds in the conversations of the concurrent turns:
\* nothing, or the one fact "A".
ConcFacts == {<<>>, <<<<"A">>>>}

\* Two handler activations serve the turns of user A on two threads; each
\* await of a handler is a point where the other one can run. The database
\* answers every query.
NextConc ==
    \/ \E s \in Slots, t \in TwoThreadIds, m \in UserTexts : ChatLoad(s, <<"A">>, t, m)
    \/ \E s \in Slots : ChatInput(s)
    \/ \E s \in Slots : AgentSearch(s, TRUE)
    \/ \E s \in Slots, r \in Responses : AgentInvoke(s, r)
    \/ \E s \in Slots : AgentInvokeFails(s)
    \/ \E s \in Slots, facts \in ConcFacts : AgentExtract(s, facts)
    \/ \E s \in Slots : AgentSaveFact(s, TRUE)
    \/ \E s \in Slots : AgentReturn(s)

SpecConc == InitThreads /\ [][NextConc]_vars

\* memoryStore.put(namespace, key, { fact }) on the table.
PutStore(userId, key, fact, dbOk) ==
    /\ probe.pc = "ready"
    /\ memories' = put(memories, namespaceOf(userId), key, fact, dbOk)
    /\ probe' = [pc |-> "put", ns |-> namespaceOf(userId), key |-> key, before |-> memories]
    /\ UNCHANGED <<checkpoints, nextId, turn, started, dbFailures, act, putBy,
                   writers, got, parsed, transports, mcp>>

\* memoryStore.delete(namespace, key) on the table.
DeleteStore(userId, key, dbOk) ==
    /\ probe.pc = "ready"
    /\ memories' = delete(memories, namespaceOf(userId), key, dbOk)
    /\ probe' = [pc |-> "deleted", ns |-> namespaceOf(userId), key |-> key, before |-> memories]
    /\ UNCHANGED <<checkpoints, nextId, turn, started, dbFailures, act, putBy,
                   writers, got, parsed, transports, mcp>>

\* A put or a delete under the id of the oldest row, of the newest row or
\* under an id no row has.
NextStore ==
    \/ \E u \in UserIds, key \in {1, Len(memories), Len(memories) + 1},
          fact \in FactTexts, dbOk \in BOOLEAN : PutStore(u, key, fact, dbOk)
    \/ \E u \in UserIds, key \in {1, Len(memories), Len(memories) + 1},
          dbOk \in BOOLEAN : DeleteStore(u, key, dbOk)

SpecStore == InitSearch /\ [][NextStore]_vars

(* ---------------------------- deduplication -------------------------- *)

\* Largest number of known facts a candidate is compared with.
MaxKnown == 2

\* Texts of known facts: one character in both cases, and texts longer than
\* the compared prefix that agree or differ in their leading characters.
KnownTexts ==
    { <<"A">>, <<"a">>, <<"B">>, LongPrefix \o <<"x">>, LongPrefix \o <<"y">>,
      <<"B">> \o LongPrefix }

InitDedup ==
    \E n \in 0..MaxKnown : \E known \in [1..n -> KnownTexts] :
        \E fact \in KnownTexts \cup {<<>>, <<"x">> \o LongPrefix} :
            InitWith(<<>>, [pc |-> "ready", userMemories |-> known, fact |-> fact])

\* The isDuplicate test of one iteration of the save loop.
CheckDuplicate ==
    /\ probe.pc = "ready"
    /\ probe' = [probe EXCEPT !.pc = "checked"] @@
                [isDuplicate |-> isDuplicate(probe.userMemories, probe.fact)]
    /\ UNCHANGED <<checkpoints, memories, nextId, turn, started, dbFailures, act,
                   putBy, writers, got, parsed, transports, mcp>>

NextDedup == CheckDuplicate

SpecDedup == InitDedup /\ [][NextDedup]_vars

\* The activation "s1" serves the turns on thread 1 and "s2" those on
\* thread 2: turns on different threads overlap in every way, turns on one
\* thread follow each other.
NextApart ==
    \/ \E m \in UserTexts : ChatLoad("s1", <<"A">>, <<"1">>, m)
    \/ \E m \in UserTexts : ChatLoad("s2", <<"A">>, <<"2">>, m)
    \/ \E s \in Slots : ChatInput(s)
    \/ \E s \in Slots : AgentSearch(s, TRUE)
    \/ \E s \in Slots, r \in Responses : AgentInvoke(s, r)
    \/ \E s \in Slots : AgentInvokeFails(s)
    \/ \E s \in Slots, facts \in ConcFacts : AgentExtract(s, facts)
    \/ \E s \in Slots : AgentSaveFact(s, TRUE)
    \/ \E s \in Slots : AgentReturn(s)

SpecApart == InitThreads /\ [][NextApart]_vars

(* ----------------------------- tool server --------------------------- *)

\* Largest number of transports the tool server constructs.
MaxTransports == 3

Header(value) == [present |-> TRUE, value |-> value]

\* const sessionId = req.headers["mcp-session-id"]; the tests are
\* `sessionId` and `!sessionId`: an absent header and an empty one are falsy.
truthy(header) == header.present /\ header.value # <<>>

\* randomUUID(): the n-th generated session id differs from all others.
randomUUID(n) == <<"s", ToString(n)>>

\* The headers of the requests: none, an empty one, an id the server never
\* generated, and the ids it can generate.
McpHeaders ==
    {NoHeader} \cup {Header(v) : v \in {<<>>, <<"x">>} \cup {randomUUID(n) : n \in 1..MaxTransports}}

\* transports.has(key)
has(map, key) == key \in DOMAIN map

\* transports.set(key, value)
set(map, key, value) ==
    [k \in DOMAIN map \cup {key} |-> IF k = key THEN value ELSE map[k]]

\* A delete that leaves the map as it is.
mapKeep(map, key) == map

\* transports.delete(key)
mapDelete(map, key) == [k \in DOMAIN map \ {key} |-> map[k]]

\* transport.handleRequest of the streamable HTTP transport, by its status:
\* a transport without session accepts an initialize request only; one with
\* a session accepts every request but a second initialize.
handleRequest(method, initialized, isInitialize) ==
    IF method = "POST" /\ initialized = isInitialize THEN 400 ELSE 200

\* app.post("/mcp")
PostMcp(header, isInitialize) ==
    /\ IF truthy(header) /\ has(transports, header.value)
       THEN /\ mcp' = [method |-> "POST", header |-> header,
                       status |-> handleRequest("POST", TRUE, isInitialize),
                       before |-> transports, made |-> mcp.made,
                       constructed |-> FALSE, closed |-> FALSE]
            /\ UNCHANGED transports
       ELSE IF ~truthy(header)
       THEN /\ mcp.made < MaxTransports
            /\ LET newSessionId == randomUUID(mcp.made + 1)
                   transport == [sessionId |-> newSessionId]
               IN /\ transports' = IF isInitialize
                                   THEN set(transports, newSessionId, transport)
                                   ELSE transports
                  /\ mcp' = [method |-> "POST", header |-> header,
                             status |-> handleRequest("POST", FALSE, isInitialize),
                             before |-> transports, made |-> mcp.made + 1,
                             constructed |-> TRUE, closed |-> FALSE]
       ELSE /\ mcp' = [method |-> "POST", header |-> header, status |-> 400,
                       before |-> transports, made |-> mcp.made,
                       constructed |-> FALSE, closed |-> FALSE]
            /\ UNCHANGED transports
    /\ UNCHANGED <<checkpoints, memories, nextId, turn, started, dbFailures, act,
                   putBy, writers, got, parsed, probe>>

\* app.get("/mcp")
GetMcp(header) ==
    /\ mcp' = [method |-> "GET", header |-> header,
               status |-> IF ~truthy(header) \/ ~has(transports, header.value)
                          THEN 400 ELSE handleRequest("GET", TRUE, FALSE),
               before |-> transports, made |-> mcp.made,
               constructed |-> FALSE, closed |-> FALSE]
    /\ UNCHANGED transports
    /\ UNCHANGED <<checkpoints, memories, nextId, turn, started, dbFailures, act,
                   putBy, writers, got, parsed, probe>>

\* app.delete("/mcp"): the transport of a known session handles the request
\* by closing, and its onclose removes it from the map.
DeleteMcp(header) ==
    /\ IF ~truthy(header) \/ ~has(transports, header.value)
       THEN /\ mcp' = [method |-> "DELETE", header |-> header, status |-> 400,
                       before |-> transports, made |-> mcp.made,
                       constructed |-> FALSE, closed |-> FALSE]
            /\ UNCHANGED transports
       ELSE LET sid == transports[header.value].sessionId
            IN /\ transports' = mapDelete(transports, sid)
               /\ mcp' = [method |-> "DELETE", header |-> header,
                          status |-> handleRequest("DELETE", TRUE, FALSE),
                          before |-> transports, made |-> mcp.made,
                          constructed |-> FALSE, closed |-> TRUE]
    /\ UNCHANGED <<checkpoints, memories, nextId, turn, started, dbFailures, act,
                   putBy, writers, got, parsed, probe>>

InitMcp == InitOn({})

NextMcp ==
    \/ \E h \in McpHeaders, i \in BOOLEAN : PostMcp(h, i)
    \/ \E h \in McpHeaders : GetMcp(h)
    \/ \E h \in McpHeaders : DeleteMcp(h)

SpecMcp == InitMcp /\ [][NextMcp]_vars

(* ----------------------------- thread keys --------------------------- *)

\* Longest userId and threadId a key is built from.
MaxIdLen == 2

IdChars == {"A", "B", ":"}

\* The non-empty strings of at most MaxIdLen characters.
IdStrings == UNION {[1..k -> IdChars] : k \in 1..MaxIdLen}

InitKey ==
    \E u \in IdStrings, t \in IdStrings :
        InitWith(<<>>, [pc |-> "ready", userId |-> u, threadId |-> t])

\* parseThreadId(makeThreadId(userId, threadId))
ParseKey ==
    /\ probe.pc = "ready"
    /\ probe' = [probe EXCEPT !.pc = "parsed"] @@
                [key |-> makeThreadId(probe.userId, probe.threadId),
                 out |-> parseThreadId(makeThreadId(probe.userId, probe.threadId))]
    /\ UNCHANGED <<checkpoints, memories, nextId, turn, started, dbFailures, act,
                   putBy, writers, got, parsed, transports, mcp>>

NextKey == ParseKey

SpecKey == InitKey /\ [][NextKey]_vars

(* ------------------------------- claims ------------------------------- *)

\* The messages a turn has added to its thread so far.
TurnSegment(s) ==
    SubSeq(checkpoints[turn[s].threadKey], Len(turn[s].loaded) + 1,
           Len(checkpoints[turn[s].threadKey]))

Accepted(s) == turn[s].threadKey # <<>>

Done(s) == turn[s].pc = "done"

\* C1: append-only thread state. The sequence persisted before a turn is a
\* strict prefix of the sequence persisted once the turn is accepted and from
\* then on, the new user message directly follows it, and no step of any
\* turn replaces, reorders or drops a message a thread already holds.
C1_AppendOnly ==
    /\ [](\A s \in Slots : Accepted(s) =>
            /\ IsStrictPrefix(turn[s].loaded, checkpoints[turn[s].threadKey])
            /\ TurnSegment(s)[1].type = "human")
    /\ [][\A k \in ThreadKeys : IsPrefix(checkpoints[k], checkpoints'[k])]_vars

\* A second turn on a thread has completed on top of the first one's messages.
C1_Witness ==
    \E s \in Slots : Done(s) /\ Len(turn[s].loaded) >= 2 /\ Len(TurnSegment(s)) = 2

\* C2: tool round-trip. A completed turn whose first model response carried
\* a call of a registered tool has persisted, in order, the user message, the
\* assistant message with the tool call, the tool message with the tool's
\* result and a final tool-free assistant message, and the caller was
\* answered with the content of that final message.
C2_ToolRoundTrip ==
    \A s \in Slots :
        (/\ Done(s)
         /\ turn[s].response.tool_calls # <<>>
         /\ turn[s].response.tool_calls[1].name \in tools)
        => LET seg == TurnSegment(s)
               call == turn[s].response.tool_calls[1]
           IN /\ Len(seg) = 4
              /\ seg[1].type = "human"
              /\ seg[2] = turn[s].response
              /\ seg[3] = ToolMessage(call.id, JSONstringify(toolResult(call.args)))
              /\ seg[4].type = "ai" /\ seg[4].tool_calls = <<>>
              /\ turn[s].res.reply = seg[4].content

\* C3: the turn reaches end only on a tool-free response. A completed turn's
\* last persisted message, the one returned to the caller, is an assistant
\* message without tool calls.
C3_EndOnlyToolFree ==
    \A s \in Slots :
        Done(s) => /\ Last(checkpoints[turn[s].threadKey]).type = "ai"
                   /\ Last(checkpoints[turn[s].threadKey]).tool_calls = <<>>

\* C4: unknown tool. When the act step ran on an assistant message whose tool
\* call names an unregistered tool, it did not raise and appended a tool
\* message that reports the tool as not found.
C4_UnknownToolReported ==
    (/\ act.pc \in {"returned", "threw"}
     /\ Last(act.messages).tool_calls # <<>>
     /\ Last(act.messages).tool_calls[1].name \notin tools)
    => /\ act.pc = "returned"
       /\ Len(act.update) >= 1
       /\ act.update[1].type = "tool"
       /\ act.update[1].tool_call_id = Last(act.messages).tool_calls[1].id
       /\ \E i \in 1..Len(act.update[1].content) : act.update[1].content[i] = "not found"

\* C5: tool failure is recovered locally. When the resolved tool raised, the
\* act step did not raise and appended a tool message that answers the call
\* and reports the error.
C5_ToolFailureRecovered ==
    (/\ act.pc \in {"returned", "threw"}
     /\ Last(act.messages).tool_calls # <<>>
     /\ Last(act.messages).tool_calls[1].name \in tools
     /\ act.toolRaised)
    => /\ act.pc = "returned"
       /\ Len(act.update) >= 1
       /\ act.update[1].type = "tool"
       /\ act.update[1].tool_call_id = Last(act.messages).tool_calls[1].id
       /\ \E i \in 1..Len(act.update[1].content) : act.update[1].content[i] = "tool error"

\* C6: every tool call is answered. When the act step ran on an assistant
\* message with n >= 1 calls of registered tools and no tool raised, it
\* appended exactly n tool messages, the i-th answering the i-th call.
C6_EveryCallAnswered ==
    LET calls == Last(act.messages).tool_calls
    IN (/\ act.pc \in {"returned", "threw"}
        /\ Len(calls) >= 1
        /\ \A i \in 1..Len(calls) : calls[i].name \in tools
        /\ ~act.toolRaised)
       => /\ act.pc = "returned"
          /\ Len(act.update) = Len(calls)
          /\ \A i \in 1..Len(calls) :
                /\ act.update[i].type = "tool"
                /\ act.update[i].tool_call_id = calls[i].id

\* C7: loop termination on a tool-free answer. A completed turn whose first
\* model response carried no tool call invoked the answering model exactly
\* once, appended exactly that response after the user message, and answered
\* the caller with that response's content.
C7_SingleInvocation ==
    \A s \in Slots :
        (Done(s) /\ turn[s].response.tool_calls = <<>>)
        => /\ turn[s].invocations = 1
           /\ Len(TurnSegment(s)) = 2
           /\ TurnSegment(s)[2] = turn[s].response
           /\ turn[s].res = [status |-> 200, reply |-> turn[s].response.content]

\* A turn has completed on a tool-free first response.
C7_Witness ==
    \E s \in Slots :
        /\ Done(s)
        /\ turn[s].response = AIMessage(<<"answer">>, <<>>)
        /\ turn[s].invocations = 1

\* The nearest assistant message before position i, or 0.
NearestAI(msgs, i) ==
    LET before == {j \in 1..(i - 1) : msgs[j].type = "ai"}
    IN IF before = {} THEN 0 ELSE CHOOSE j \in before : \A k \in before : k <= j

CausalOrder(msgs) ==
    \A i \in 1..Len(msgs) :
        /\ i = 1 => msgs[i].type = "human"
        /\ (i > 1 /\ msgs[i].type = "human")
              => ~(msgs[i - 1].type = "ai" /\ msgs[i - 1].tool_calls # <<>>)
        /\ (i > 1 /\ msgs[i].type = "ai") => msgs[i - 1].type \in {"human", "tool"}
        /\ msgs[i].type = "tool"
              => /\ NearestAI(msgs, i) > 0
                 /\ \A j \in (NearestAI(msgs, i) + 1)..(i - 1) : msgs[j].type = "tool"
                 /\ \E c \in 1..Len(msgs[NearestAI(msgs, i)].tool_calls) :
                       msgs[NearestAI(msgs, i)].tool_calls[c].id = msgs[i].tool_call_id

\* C8: causal order inside a turn. Every persisted thread state starts with a
\* user message; no user message directly follows an assistant message whose
\* tool calls are unanswered; an assistant message follows a user or a tool
\* message; every tool message answers a call of the nearest preceding
\* assistant message, with only tool messages in between.
C8_CausalOrder == \A k \in ThreadKeys : CausalOrder(checkpoints[k])

Elems(seq) == {seq[i] : i \in 1..Len(seq)}

NoRepeats(seq) == Cardinality(Elems(seq)) = Len(seq)

RowsWith(ns, fact) ==
    {i \in 1..Len(memories) : memories[i].namespace = ns /\ memories[i].fact = fact}

\* C9: dedup idempotence. When no database query failed and a completed turn
\* extracted a fact text that the preceding turn of the same user extracted
\* too (neither list naming a text twice), exactly one record with that text
\* is stored in the user's namespace.
C9_DedupIdempotent ==
    \A s \in Slots :
        (/\ Done(s)
         /\ dbFailures = 0
         /\ turn[s].prev.userId = turn[s].userId
         /\ NoRepeats(turn[s].extracted)
         /\ NoRepeats(turn[s].prev.extracted))
        => \A f \in Elems(turn[s].extracted) \cap Elems(turn[s].prev.extracted) :
              Cardinality(RowsWith(namespaceOf(turn[s].userId), f)) = 1

\* The 20-character-prefix containment rule, in both directions.
NearDuplicates(a, b) ==
    \/ includes(toLowerCase(a), slice(toLowerCase(b), PrefixLen))
    \/ includes(toLowerCase(b), slice(toLowerCase(a), PrefixLen))

\* C10: no near-duplicates. Whenever every turn so far has completed, no two
\* facts stored in the same namespace are near-duplicates of each other.
C10_NoNearDuplicates ==
    (\A s \in Slots : ~InFlight(s))
    => \A i, j \in 1..Len(memories) :
          (i < j /\ memories[i].namespace = memories[j].namespace)
          => ~NearDuplicates(memories[i].fact, memories[j].fact)

\* C11: fact namespace isolation. Every record the known-facts search of a
\* turn returned was stored while processing a turn of that same user.
C11_NamespaceIsolation ==
    \A s \in Slots :
        \A i \in 1..Len(turn[s].items) :
            putBy[turn[s].items[i]].userId = turn[s].userId

\* A search has just returned facts of its user while the store also holds
\* a fact stored for another user.
C11_Witness ==
    \E s \in Slots :
        /\ turn[s].pc = "invoke"
        /\ turn[s].items # <<>>
        /\ \E id \in 1..Len(putBy) : putBy[id].userId # turn[s].userId

\* C12: thread isolation. A thread read for a user returns messages only
\* of a thread that no other user's turn has written to, and no thread key
\* is written to by turns of two users; this for ids with and without colons.
C12_ThreadIsolation ==
    /\ (got.status = 200 /\ got.messages # <<>>)
          => writers[fullThreadId(got.userId, got.threadId)] \subseteq {got.userId}
    /\ \A k \in DOMAIN writers : Cardinality(writers[k]) <= 1

RowOf(id) == CHOOSE r \in Elems(memories) : r.id = id

\* The records of the turn's user that were stored before the turn and are
\* among the SearchLimit newest of them.
KnownBefore(s) ==
    LET mine == {id \in 1..Len(putBy) :
                    putBy[id].userId = turn[s].userId /\ id \notin Elems(turn[s].saved)}
    IN {id \in mine : Cardinality({j \in mine : j > id}) < SearchLimit}

SystemTexts(prompt) == {prompt[i].content : i \in {j \in 1..Len(prompt) : prompt[j].type = "system"}}

\* C13: cross-thread memory. Once a turn has invoked the answering model
\* after a successful known-facts read, the system prompt it sent holds the
\* text of every fact among the user's 50 newest that an earlier turn of the
\* user stored on a different thread.
C13_CrossThreadMemory ==
    \A s \in Slots :
        (turn[s].invocations >= 1 /\ turn[s].log = <<>>)
        => \A id \in KnownBefore(s) :
              putBy[id].threadKey # turn[s].threadKey
              => \E c \in SystemTexts(turn[s].prompt) : includes(c, RowOf(id).fact)

\* C14: memory injection. The system prompt a turn sent to the answering
\* model holds no memory section when the turn read no known fact, and
\* holds each known fact's text as one bullet when it read some.
C14_MemoryInjection ==
    \A s \in Slots :
        turn[s].invocations >= 1
        => \E c \in SystemTexts(turn[s].prompt) :
              /\ turn[s].userMemories = <<>> => ~includes(c, <<RememberHeader>>)
              /\ \A i \in 1..Len(turn[s].userMemories) :
                    includes(c, <<"- ">> \o turn[s].userMemories[i])

C16_ExtractionTiming ==
    \A s \in Slots :
        (turn[s].userId # <<>> /\ turn[s].invocations >= 1)
        => /\ turn[s].response.tool_calls # <<>> => turn[s].extractions = 0
           /\ (Done(s) /\ turn[s].response.tool_calls = <<>>) => turn[s].extractions = 1

\* The positions of the extracted facts that are no duplicates of the facts
\* the turn read.
FreshFacts(s) ==
    {i \in 1..Len(turn[s].extracted) :
        ~isDuplicate(turn[s].userMemories, turn[s].extracted[i])}

PutFailures(s) == Cardinality({i \in 1..Len(turn[s].log) : turn[s].log[i] = "put"})

\* C17: awaited persistence. When chatAgent is about to return or has
\* returned, every extracted non-duplicate fact has either a record of its
\* text under a new id in the user's namespace or a logged save failure;
\* and a known-facts search that succeeded holds every record stored for
\* the user before the turn that is among the user's 50 newest.
C17_AwaitedPersistence ==
    \A s \in Slots :
        /\ (turn[s].pc \in {"return", "done"} /\ turn[s].extractions = 1)
           => /\ Len(turn[s].saved) + PutFailures(s) = Cardinality(FreshFacts(s))
              /\ \A i \in 1..Len(turn[s].saved) :
                    \E r \in Elems(memories) :
                       /\ r.id = turn[s].saved[i]
                       /\ r.namespace = namespaceOf(turn[s].userId)
                       /\ \E j \in FreshFacts(s) : r.fact = turn[s].extracted[j]
        /\ (turn[s].reads = 1 /\ "search" \notin Elems(turn[s].log))
           => KnownBefore(s) \subseteq Elems(turn[s].items)

\* A turn has just read the facts that the preceding turn of the same user
\* extracted and stored.
C17_Witness ==
    \E s \in Slots :
        /\ turn[s].pc = "invoke"
        /\ turn[s].prev.userId = turn[s].userId
        /\ turn[s].prev.extracted # <<>>
        /\ Len(turn[s].items) >= 2

\* The reply holds no "[" with a "]" somewhere after it.
NoArray(c) == ~\E i, j \in 1..Len(c) : i < j /\ c[i].k = "[" /\ c[j].k = "]"

\* The tokens from the first "[" to the last "]" of a reply that has them.
Bracketed(c) ==
    LET i == CHOOSE x \in 1..Len(c) : c[x].k = "[" /\ \A y \in 1..(x - 1) : c[y].k # "["
        j == CHOOSE x \in 1..Len(c) : c[x].k = "]" /\ \A y \in (x + 1)..Len(c) : c[y].k # "]"
    IN SubSeq(c, i, j)

Inner(m) == SubSeq(m, 2, Len(m) - 1)

\* No bracket between the outer two.
Unnested(m) == \A i \in 1..Len(Inner(m)) : Inner(m)[i].k \notin {"[", "]"}

\* "[" literal "," literal ... "]", or "[" "]".
FlatArray(m) ==
    /\ Unnested(m)
    /\ Inner(m) = <<>> \/ Len(Inner(m)) % 2 = 1
    /\ \A i \in 1..Len(Inner(m)) :
          IF i % 2 = 1 THEN Inner(m)[i].k \in {"str", "num"} ELSE Inner(m)[i].k = ","

\* The texts of the string literals of a token list, in order.
StringTexts(m) ==
    LET lits == SelectSeq(m, LAMBDA e : e.k = "str")
    IN [i \in 1..Len(lits) |-> lits[i].v]

\* C18 as claimed: the extraction result is empty when the model call failed,
\* when the reply holds no bracketed array, when the bracketed text is no
\* well-formed array, and when an element of the array is not a string.
C18_AllOrNothing ==
    LET c == parsed.content
    IN (/\ parsed.pc = "done"
        /\ \/ parsed.threw
           \/ NoArray(c)
           \/ Unnested(Bracketed(c)) /\ ~FlatArray(Bracketed(c))
           \/ FlatArray(Bracketed(c)) /\ \E i \in 1..Len(c) : c[i].k = "num")
       => parsed.facts = <<>>

\* C18: best-effort extraction parsing. The extraction result is empty when
\* the model call failed, when the reply holds no bracketed array and when
\* the bracketed text is no well-formed array; for a well-formed array of
\* strings and numbers it is the array's strings in their order, the other
\* elements being dropped; and it never holds a text that is no string
\* literal of the reply.
C18_BestEffortParsing ==
    LET c == parsed.content
    IN parsed.pc = "done"
       => /\ (parsed.threw \/ NoArray(c)) => parsed.facts = <<>>
          /\ (~parsed.threw /\ ~NoArray(c))
                => /\ (Unnested(Bracketed(c)) /\ ~FlatArray(Bracketed(c)))
                         => parsed.facts = <<>>
                   /\ FlatArray(Bracketed(c))
                         => parsed.facts = StringTexts(Bracketed(c))
          /\ \A i \in 1..Len(parsed.facts) :
                \E j \in 1..Len(c) : c[j].k = "str" /\ c[j].v = parsed.facts[i]

\* A reply whose array holds a string and a number has been parsed.
C18_Witness ==
    /\ parsed.pc = "done"
    /\ ~NoArray(parsed.content)
    /\ FlatArray(Bracketed(parsed.content))
    /\ \E i \in 1..Len(parsed.content) : parsed.content[i].k = "num"
    /\ parsed.facts # <<>>

\* C19: memory failures are non-fatal. A turn that logged a failed
\* known-facts read, a failed extraction or a failed save, and whose model
\* invocation did not fail, has not failed; once completed it has answered
\* 200 with the content of the model's response, which is the thread's last
\* message; and no fact was put more than once: every put either stored its
\* fact or was logged and dropped.
C19_MemoryFailuresNonFatal ==
    \A s \in Slots :
        /\ (turn[s].log # <<>> /\ turn[s].modelErrors = 0) => turn[s].pc # "failed"
        /\ Done(s) => /\ turn[s].res = [status |-> 200, reply |-> turn[s].response.content]
                      /\ Last(checkpoints[turn[s].threadKey]) = turn[s].response
        /\ turn[s].puts = Len(turn[s].saved) + PutFailures(s)
        /\ turn[s].puts + Len(turn[s].newFacts) <= Len(turn[s].extracted)

\* A turn has completed although the save of one of its two facts failed.
C19_Witness ==
    \E s \in Slots :
        /\ Done(s)
        /\ PutFailures(s) = 1
        /\ Len(turn[s].extracted) = 2
        /\ Len(turn[s].saved) = 1

\* C20: model-invocation failure is fatal for the turn. A turn whose
\* answering model invocation failed has failed with status 500 after that
\* one invocation, has run no extraction and no save, and has added nothing
\* but the user message to its thread.
C20_ModelFailureFatal ==
    \A s \in Slots :
        turn[s].modelErrors >= 1
        => /\ turn[s].pc = "failed"
           /\ turn[s].res = [status |-> 500, reply |-> <<>>]
           /\ turn[s].invocations = 1
           /\ turn[s].extractions = 0 /\ turn[s].puts = 0
           /\ Len(TurnSegment(s)) = 1
           /\ TurnSegment(s)[1].type = "human"

\* The model invocation of a turn on a thread with history has failed.
C20_Witness ==
    \E s \in Slots :
        /\ turn[s].modelErrors = 1
        /\ turn[s].pc = "failed"
        /\ Len(turn[s].loaded) >= 2

\* The positions of the rows of a namespace, in creation order.
RowsOf(ns) == {i \in 1..Len(memories) : memories[i].namespace = ns}

\* C21: bounded recency read. A known-facts search whose query succeeded
\* returns at most 50 rows and as many as the namespace has up to 50; each
\* is a row of the namespace; they are in newest-first order; and no row of
\* the namespace that is newer than a returned one is left out.
C21_BoundedRecencyRead ==
    (probe.pc = "searched" /\ probe.dbOk)
    => LET r == probe.result
           at(k) == CHOOSE i \in 1..Len(memories) : memories[i].id = r[k].id
       IN /\ Len(r) = Min(SearchLimit, Cardinality(RowsOf(probe.ns)))
          /\ \A k \in 1..Len(r) :
                /\ \E i \in RowsOf(probe.ns) :
                      memories[i].id = r[k].id /\ memories[i].fact = r[k].fact
                /\ k > 1 => at(k) < at(k - 1)
                /\ \A i \in RowsOf(probe.ns) :
                      i > at(k) => \E j \in 1..Len(r) : at(j) = i

\* A search has returned 50 rows of a namespace that holds more, from a
\* table that holds rows of another namespace too.
C21_Witness ==
    /\ probe.pc = "searched"
    /\ Len(probe.result) = SearchLimit
    /\ Cardinality(RowsOf(probe.ns)) > SearchLimit
    /\ \E i \in 1..Len(memories) : memories[i].namespace # probe.ns

\* The thread's messages as the node of turn s received them: the loaded
\* ones and the request's message.
Received(s) == SubSeq(turn[s].messages, 1, Len(turn[s].loaded) + 1)

C23_KeyRoundTrip ==
    probe.pc = "parsed"
    => probe.out = [userId |-> probe.userId, threadId |-> probe.threadId]

\* C24: facts are never changed or removed implicitly. No step of turn
\* processing removes a row of the memory table or changes the id, the
\* namespace or the text of one: every row stays where it is, and rows are
\* only added behind it.
C24_FactsOnlyGrow ==
    [][\A i \in 1..Len(memories) : i <= Len(memories') /\ memories'[i] = memories[i]]_vars

\* A turn has stored a fact while the table held a fact of an earlier turn
\* of the same user.
C24_Witness ==
    \E s \in Slots :
        /\ turn[s].saved # <<>>
        /\ \E i \in 1..Len(memories) :
              /\ memories[i].id \notin Elems(turn[s].saved)
              /\ memories[i].namespace = namespaceOf(turn[s].userId)

\* C25: same-thread concurrency is unprotected. When two turns that loaded
\* the same history of one thread have both finished, the thread holds the
\* loaded history and two more messages, the request and the answer of one
\* turn: the two messages of the other turn are not in it.
C25_LostUpdate ==
    (/\ Done("s1") /\ Done("s2")
     /\ turn["s1"].threadKey = turn["s2"].threadKey
     /\ turn["s1"].loaded = turn["s2"].loaded)
    => /\ Len(checkpoints[turn["s1"].threadKey]) = Len(turn["s1"].loaded) + 2
       /\ checkpoints[turn["s1"].threadKey] \in {turn["s1"].messages, turn["s2"].messages}

\* Two turns that loaded the same non-empty history of one thread while
\* both were in flight have finished.
C25_Witness ==
    /\ Done("s1") /\ Done("s2")
    /\ turn["s1"].threadKey = turn["s2"].threadKey
    /\ turn["s1"].loaded = turn["s2"].loaded
    /\ turn["s1"].loaded # <<>>

\* The first PrefixLen characters of c occur in m at some offset, letters
\* compared without regard to case.
HoldsPrefixOf(m, c) ==
    LET n == IF Len(c) < PrefixLen THEN Len(c) ELSE PrefixLen
    IN \E k \in 0..(Len(m) - n) :
          \A j \in 1..n : LowerChar(m[k + j]) = LowerChar(c[j])

\* C26: deduplication rule. A candidate is treated as a duplicate exactly
\* when some known fact holds the first 20 characters of the candidate, or
\* the candidate holds the first 20 characters of some known fact, both
\* lower-cased; every other candidate is stored.
C26_DedupRule ==
    probe.pc = "checked"
    => (probe.isDuplicate
          <=> \E i \in 1..Len(probe.userMemories) :
                 \/ HoldsPrefixOf(probe.userMemories[i], probe.fact)
                 \/ HoldsPrefixOf(probe.fact, probe.userMemories[i]))

\* A candidate that differs from a known fact only behind its first 20
\* characters and in the case of its letters has been found a duplicate.
C26_Witness ==
    /\ probe.pc = "checked"
    /\ probe.isDuplicate
    /\ probe.fact = LongPrefix \o <<"y">>
    /\ probe.userMemories = << <<"B">> \o LongPrefix, LongPrefix \o <<"x">> >>

\* C27: extraction window. The fact extraction of a turn is run on the
\* last 6 messages of the thread's sequence with the turn's answer at its
\* end.
C27_ExtractionWindow ==
    \A s \in Slots :
        turn[s].extractions >= 1
        => turn[s].window = sliceLast(Received(s) \o <<turn[s].response>>, ExtractWindow)

\* C28: thread listing. The listing for a user holds an entry for exactly
\* the threads that turns of that user wrote to, no thread twice, and no
\* thread that a turn of another user wrote to.
C28_ThreadListing ==
    probe.pc = "listed"
    => LET listed == [i \in 1..Len(probe.threads) |-> probe.threads[i].fullThreadId]
       IN /\ Elems(listed) = {k \in DOMAIN writers : probe.userId \in writers[k]}
          /\ NoRepeats(listed)
          /\ \A k \in Elems(listed) : writers[k] \subseteq {probe.userId}

\* C29: store writes and deletes are namespaced. A put or a delete under
\* one namespace leaves the result of a search of every other namespace as
\* it was, whatever the key.
C29_NamespacedWrites ==
    probe.pc \in {"put", "deleted"}
    => \A u \in UserIds :
          namespaceOf(u) # probe.ns
          => search(memories, namespaceOf(u), TRUE) = search(probe.before, namespaceOf(u), TRUE)

\* C30: dedup under concurrent turns. Once two turns of one user on
\* different threads that both extracted the same fact text have finished,
\* the user's namespace holds exactly one record with that text.
C30_ConcurrentDedup ==
    (/\ Done("s1") /\ Done("s2")
     /\ turn["s1"].userId = turn["s2"].userId
     /\ turn["s1"].threadKey # turn["s2"].threadKey)
    => \A fact \in Elems(turn["s1"].extracted) \cap Elems(turn["s2"].extracted) :
          Cardinality(RowsWith(namespaceOf(turn["s1"].userId), fact)) = 1

\* What the thread of turn s holds when nothing but the turn itself has
\* written to it since the turn loaded it.
OwnView(s) == IF turn[s].pc = "input" THEN turn[s].loaded ELSE turn[s].messages

\* C31: turns on different threads do not interfere. A step changes the
\* sequence of a thread only when it is a step of a turn on that thread and
\* then only appends to it, and all through a turn and after it the thread
\* holds what the turn loaded and wrote itself, as when it runs alone.
C31_ThreadsApart ==
    [][/\ \A k \in DOMAIN checkpoints :
             checkpoints'[k] # checkpoints[k]
             => /\ \E s \in Slots : turn'[s] # turn[s] /\ turn'[s].threadKey = k
                /\ IsStrictPrefix(checkpoints[k], checkpoints'[k])
       /\ \A s \in Slots :
             Accepted(s)' => checkpoints'[turn'[s].threadKey] = OwnView(s)']_vars

\* A later turn on one thread has finished while a turn on the other
\* thread has written its input and not yet returned.
C31_Witness ==
    /\ Done("s1") /\ turn["s1"].loaded # <<>>
    /\ turn["s2"].pc = "return"
    /\ checkpoints[turn["s2"].threadKey] # <<>>

====
